---- MODULE Spec2Model ----
(***************************************************************************)
(* Model of the IPO screener: scalar coercion, moving averages and signal   *)
(* derivation (indicators.py), the IPO / price / info sources              *)
(* (data_fetcher.py) and the screener run of main() (app.py).              *)
(*                                                                         *)
(* Python values are records [t, n, d, s]: t is the type tag, n/d the      *)
(* numerator and denominator of a number in lowest terms, s a string       *)
(* payload (the text of a str, the name of a raised exception).            *)
(* Floating point rounding is not modelled: numbers are exact rationals.   *)
(***************************************************************************)
EXTENDS Integers, Sequences, FiniteSets, TLC

VARIABLES
  value,              \* argument handed to _to_scalar
  empty_truth_raises, \* build: bool() of an empty numpy array raises (numpy >= 2.2)
  coerced,            \* outcome of _to_scalar(value)
  df,                 \* price table: [len, cols]
  windows,            \* the `windows` argument of the indicator functions
  signals,            \* result of get_ma_signals
  row,                \* outcome of one screener loop body
  api_key,            \* effective Finnhub key ("" when absent)
  finnhub_installed,  \* the optional finnhub import succeeded
  ipo_source,         \* what the IPO calendar call does
  manual_tickers,     \* sidebar text input, a sequence of characters
  selected_mas,       \* sidebar multiselect
  ipos_df,            \* IPO records
  tickers,            \* sorted unique tickers of the run
  idx,                \* loop position in tickers
  rows,               \* assembled screener rows
  calls,              \* log of calls made to external sources
  market,             \* what the price and info sources do for each ticker
  pc                  \* position of the run

vars == <<value, empty_truth_raises, coerced, df, windows, signals, row,
          api_key, finnhub_installed, ipo_source, manual_tickers, selected_mas,
          ipos_df, tickers, idx, rows, calls, market, pc>>

coerceVars == <<value, empty_truth_raises, coerced>>
tableVars  == <<df, windows, signals, row>>
ipoVars    == <<api_key, finnhub_installed, ipo_source, manual_tickers, ipos_df>>
runVars    == <<selected_mas, tickers, idx, rows, calls, market>>

----------------------------------------------------------------------------
(* Bounds *)
MaxElems   == 3   \* longest sequence handed to _to_scalar
MaxClose   == 1   \* largest close price of the indicator tables
MaxLen     == 3   \* most bars of the indicator tables
MaxWindow  == 3   \* largest window handed to the indicator functions
MaxWindows == 2   \* most windows in one call

----------------------------------------------------------------------------
(* Numbers *)
Abs(x) == IF x < 0 THEN 0 - x ELSE x

RECURSIVE GCD(_, _)
GCD(a, b) == IF b = 0 THEN a ELSE GCD(b, a % b)

Val(t, n, d, s) == [t |-> t, n |-> n, d |-> d, s |-> s]

\* a Python float n/d, d # 0, in lowest terms with a positive denominator
Float(n, d) ==
  LET g == GCD(Abs(n), Abs(d))
      sgn == IF d < 0 THEN 0 - 1 ELSE 1
  IN  Val("float", (sgn * n) \div g, (sgn * d) \div g, "")

None     == Val("None", 0, 1, "")
NaN      == Val("nan", 0, 1, "")
NA       == Val("NA", 0, 1, "")
Str(s)   == Val("str", 0, 1, s)
Raise(e) == Val("raise", 0, 1, e)

IsNumber(v) == v.t = "float"
IsRaise(v)  == v.t = "raise"

\* a > b on floats
Gt(a, b) == a.n * b.d > b.n * a.d

\* a / b on Python floats: division by zero raises
PyDiv(a, b) ==
  IF b.n = 0 THEN Raise("ZeroDivisionError") ELSE Float(a.n * b.d, a.d * b.n)

Add(a, b) == Float(a.n * b.d + b.n * a.d, a.d * b.d)
Sub(a, b) == Float(a.n * b.d - b.n * a.d, a.d * b.d)
Mul(a, b) == Float(a.n * b.n, a.d * b.d)

----------------------------------------------------------------------------
(* Scalar coercion: indicators.py                                          *)
(* A value is [kind, elems]: kind "scalar" holds one element; "list",      *)
(* "ndarray", "Series" and "Index" hold any number of elements.            *)

Scalar(v) == [kind |-> "scalar", elems |-> <<v>>]

\* pd.isna of one element
IsNaElem(v) == v.t \in {"None", "nan", "NA"}

\* pd.isna(value): a bool for a scalar, a Series of bools for a Series and a
\* numpy array of bools for an Index, an ndarray or a list
pd_isna(v) ==
  [kind |-> CASE v.kind = "scalar" -> "bool"
              [] v.kind = "Series" -> "Series"
              [] OTHER -> "ndarray",
   bits |-> [i \in 1..Len(v.elems) |-> IsNaElem(v.elems[i])]]

\* bool(x) of a Python bool or of a numpy array of bools; the truth value of
\* an empty array is False on some builds and an error on the others
PyBool(r, emptyRaises) ==
  CASE r.kind = "bool"  -> [raised |-> FALSE, val |-> r.bits[1]]
    [] Len(r.bits) = 1  -> [raised |-> FALSE, val |-> r.bits[1]]
    [] Len(r.bits) = 0  -> [raised |-> emptyRaises, val |-> FALSE]
    [] OTHER            -> [raised |-> TRUE, val |-> FALSE]

_is_na_scalar(v, emptyRaises) ==
  LET result == pd_isna(v)
  IN  IF result.kind = "Series"
        THEN [raised |-> FALSE,
              val |-> \A i \in 1..Len(result.bits) : result.bits[i]]
        ELSE PyBool(result, emptyRaises)

\* the text a str holds, read as a number by float()
ParseFloat(s) ==
  CASE s = "0" -> Float(0, 1)
    [] s = "1" -> Float(1, 1)
    [] s = "7" -> Float(7, 1)
    [] OTHER   -> Raise("ValueError")

\* float(x) of one element
FloatOfElem(v) ==
  CASE v.t = "float" -> v
    [] v.t = "nan"   -> v
    [] v.t = "str"   -> ParseFloat(v.s)
    [] OTHER         -> Raise("TypeError")

\* float(value): a list is no number; a numpy array converts when it holds
\* exactly one element
PyFloat(v) ==
  CASE v.kind = "scalar" -> FloatOfElem(v.elems[1])
    [] v.kind = "ndarray" /\ Len(v.elems) = 1 -> FloatOfElem(v.elems[1])
    [] OTHER -> Raise("TypeError")

\* try: return float(x)  except (TypeError, ValueError): return None
TryFloat(r) ==
  IF IsRaise(r) /\ r.s \in {"TypeError", "ValueError"} THEN None ELSE r

_to_scalar(v, emptyRaises) ==
  LET na == _is_na_scalar(v, emptyRaises)
  IN  IF na.raised THEN Raise("ValueError")
      ELSE IF na.val THEN None
      ELSE IF v.kind \in {"Series", "Index"}
        THEN IF Len(v.elems) = 0 THEN None
             ELSE LET scalar == Scalar(v.elems[Len(v.elems)])
                      lastNa == _is_na_scalar(scalar, emptyRaises)
                  IN  IF lastNa.raised THEN Raise("ValueError")
                      ELSE IF lastNa.val THEN None
                      ELSE TryFloat(PyFloat(scalar))
        ELSE TryFloat(PyFloat(v))

\* what a cell or an argument may hold
Elems == {None, NaN, NA, Float(0, 1), Float(5, 1), Float(3, 2), Str("7"), Str("abc")}

SeqsUpTo(S, n) == UNION {[1..k -> S] : k \in 0..n}

Values ==
  {Scalar(e) : e \in Elems}
    \cup {[kind |-> k, elems |-> es] :
            k \in {"list", "ndarray", "Series", "Index"}, es \in SeqsUpTo(Elems, MaxElems)}

----------------------------------------------------------------------------
(* Moving averages and signals: indicators.py                              *)
(* A table is [len, cols]: len rows, cols a function from column names to  *)
(* sequences of len cells.  Column names are pairs: <<"Close", 0>> and     *)
(* <<"SMA", w>> for the formatted name "SMA_<w>".                          *)

CloseCol    == <<"Close", 0>>
VolumeCol   == <<"Volume", 0>>
SmaCol(w)   == <<"SMA", w>>

HasCol(t, c) == c \in DOMAIN t.cols

\* df.empty: no rows or no columns
Empty(t) == t.len = 0 \/ DOMAIN t.cols = {}

\* df[col] = column
SetCol(t, c, column) ==
  [t EXCEPT !.cols = [k \in DOMAIN t.cols \cup {c} |->
                        IF k = c THEN column ELSE t.cols[k]]]

\* running state of the rolling window after bars 1..i: the number of
\* non-NaN observations inside the window and their sum
RECURSIVE RollState(_, _, _)
RollState(closes, window, i) ==
  IF i = 0 THEN [nobs |-> 0, sum |-> Float(0, 1)]
  ELSE LET prev  == RollState(closes, window, i - 1)
           added == IF IsNumber(closes[i])
                      THEN [nobs |-> prev.nobs + 1, sum |-> Add(prev.sum, closes[i])]
                      ELSE prev
       IN  IF window > 0 /\ i > window /\ IsNumber(closes[i - window])
             THEN [nobs |-> added.nobs - 1, sum |-> Sub(added.sum, closes[i - window])]
             ELSE added

\* closes.rolling(window=window, min_periods=min_periods).mean()
RollingMean(closes, window, min_periods) ==
  [i \in 1..Len(closes) |->
     LET st == RollState(closes, window, i)
     IN  IF st.nobs >= min_periods /\ st.nobs > 0
           THEN PyDiv(st.sum, Float(st.nobs, 1))
           ELSE NaN]

\* mutants of the loop body: rolling() without min_periods=window, a short
\* history that omits the column, no test for a non-positive window
MovingAverageStep_AnyPeriods(t, closes, window) ==
  IF window <= 0 THEN t
  ELSE IF t.len >= window
    THEN SetCol(t, SmaCol(window), RollingMean(closes, window, 1))
    ELSE SetCol(t, SmaCol(window), [i \in 1..t.len |-> NA])

MovingAverageStep_SkipShort(t, closes, window) ==
  IF window <= 0 THEN t
  ELSE IF t.len >= window
    THEN SetCol(t, SmaCol(window), RollingMean(closes, window, window))
    ELSE t

MovingAverageStep_NoSignTest(t, closes, window) ==
  IF t.len >= window
    THEN SetCol(t, SmaCol(window), RollingMean(closes, window, window))
    ELSE SetCol(t, SmaCol(window), [i \in 1..t.len |-> NA])

\* body of the loop over windows
MovingAverageStep(t, closes, window) ==
  IF window <= 0 THEN t
  ELSE IF t.len >= window
    THEN SetCol(t, SmaCol(window), RollingMean(closes, window, window))
    ELSE SetCol(t, SmaCol(window), [i \in 1..t.len |-> NA])

RECURSIVE MovingAverageLoop(_, _, _, _)
MovingAverageLoop(t, closes, ws, k) ==
  IF k > Len(ws) THEN t
  ELSE MovingAverageLoop(MovingAverageStep(t, closes, ws[k]), closes, ws, k + 1)

calculate_moving_averages(t, ws) ==
  IF Empty(t) THEN t
  ELSE IF ~HasCol(t, CloseCol) THEN t
  ELSE MovingAverageLoop(t, t.cols[CloseCol], ws, 1)

\* latest.get(col) on the last row
LatestGet(t, c) == IF HasCol(t, c) THEN t.cols[c][t.len] ELSE None

\* mutant: >= in place of >
Classify_GreaterEqual(close_scalar, ma_scalar) ==
  IF close_scalar = None \/ ma_scalar = None THEN "n/a"
  ELSE IF ~Gt(ma_scalar, close_scalar) THEN "above" ELSE "below"

\* the above / below test of one window
Classify(close_scalar, ma_scalar) ==
  IF close_scalar = None \/ ma_scalar = None THEN "n/a"
  ELSE IF Gt(close_scalar, ma_scalar) THEN "above" ELSE "below"

\* the table's cells are scalars, for which _to_scalar never raises
SignalOf(t, window) ==
  LET close        == LatestGet(t, CloseCol)
      ma_value     == LatestGet(t, SmaCol(window))
      close_scalar == _to_scalar(Scalar(close), FALSE)
      ma_scalar    == _to_scalar(Scalar(ma_value), FALSE)
  IN  Classify(close_scalar, ma_scalar)

Range(sq) == {sq[i] : i \in 1..Len(sq)}

\* the signals dict of get_ma_signals
get_ma_signals(t, ws) ==
  IF Empty(t) THEN << >>
  ELSE [w \in Range(ws) |-> SignalOf(t, w)]

\* closes of the price tables
CloseCells == {NaN} \cup {Float(c, 1) : c \in 0..MaxClose}

Tables ==
  {[len |-> Len(cl), cols |-> (CloseCol :> cl)] : cl \in SeqsUpTo(CloseCells, MaxLen)}
    \cup {[len |-> n, cols |-> << >>] : n \in 0..1}
    \cup {[len |-> 1, cols |-> (VolumeCol :> <<Float(v, 1)>>)] : v \in 0..1}

WindowArgs == SeqsUpTo((0 - 1)..MaxWindow, MaxWindows)

----------------------------------------------------------------------------
(* IPO source and manual tickers: data_fetcher.py, app.py                  *)
(* A ticker is a sequence of characters.  A date is Date(d), d days after  *)
(* today; None is a missing date.                                          *)

MaxInputLen == 3   \* longest manual ticker text
MaxCalendar == 2   \* most rows of the IPO calendar

Date(d) == Val("date", d, 1, "")
Today   == Date(0)

IpoRecord(ticker, company, exchange, ipo_date) ==
  [ticker |-> ticker, company |-> company, exchange |-> exchange, ipo_date |-> ipo_date]

\* str.upper() of one character
UpperChar(c) ==
  CASE c = "a" -> "A"
    [] c = "b" -> "B"
    [] OTHER   -> c

Upper(str) == [i \in 1..Len(str) |-> UpperChar(str[i])]

\* str.upper() of an exchange name
UpperExchange(e) ==
  CASE e = "nyse"   -> "NYSE"
    [] e = "nasdaq" -> "NASDAQ"
    [] OTHER        -> e

\* any(x in exchange for x in ("NASDAQ", "NYSE", "AMEX", "BATS"))
IsUSExchange(e) == e \in {"NASDAQ", "NYSE", "AMEX", "BATS"}

\* pd.to_datetime(row.get("date")).date() if row.get("date") else None
ParseDate(d) ==
  CASE d.t = "date" -> d
    [] d.t = "None" -> None
    [] OTHER        -> Raise("ValueError")

\* one row of the calendar: [raised, records]
CalendarRow(r) ==
  IF r.symbol = << >> THEN [raised |-> FALSE, records |-> << >>]
  ELSE LET exchange == UpperExchange(r.exchange)
           ipo_date == ParseDate(r.date)
       IN  IF ~IsUSExchange(exchange) THEN [raised |-> FALSE, records |-> << >>]
           ELSE IF IsRaise(ipo_date) THEN [raised |-> TRUE, records |-> << >>]
           ELSE [raised |-> FALSE,
                 records |-> <<IpoRecord(Upper(r.symbol), Upper(r.symbol),
                                         exchange, ipo_date)>>]

\* the loop over the calendar; an error anywhere leaves records = []
RECURSIVE CalendarRecords(_, _, _)
CalendarRecords(calendar, k, records) ==
  IF k > Len(calendar) THEN [raised |-> FALSE, records |-> records]
  ELSE LET r == CalendarRow(calendar[k])
       IN  IF r.raised THEN [raised |-> TRUE, records |-> << >>]
           ELSE CalendarRecords(calendar, k + 1, records \o r.records)

\* the demo fallback
DemoData ==
  << IpoRecord(<<"A", "R", "M">>, <<"A", "R", "M">>, "NASDAQ", Date(0 - 160)),
     IpoRecord(<<"K", "V", "Y", "O">>, <<"K", "V", "Y", "O">>, "NYSE", Date(0 - 140)),
     IpoRecord(<<"C", "A", "R", "T">>, <<"C", "A", "R", "T">>, "NASDAQ", Date(0 - 135)),
     IpoRecord(<<"B", "I", "R", "K">>, <<"B", "I", "R", "K">>, "NYSE", Date(0 - 130)),
     IpoRecord(<<"S", "E", "M", "R">>, <<"S", "E", "M", "R">>, "NYSE", Date(0 - 320)),
     IpoRecord(<<"N", "U", "V", "L">>, <<"N", "U", "V", "L">>, "NASDAQ", Date(0 - 280)) >>

\* sort_values("ipo_date"): a missing date sorts last
DateBefore(a, b) == a.t = "date" /\ (b.t # "date" \/ a.n < b.n)

\* every order sort_values may give: ascending by date, ties in any order
RECURSIVE SortedOrders(_, _)
SortedOrders(records, left) ==
  IF left = {} THEN {<< >>}
  ELSE UNION {
         {<<records[m]>> \o rest : rest \in SortedOrders(records, left \ {m})} :
           m \in {i \in left :
                    \A j \in left : ~DateBefore(records[j].ipo_date, records[i].ipo_date)}}

\* drop_duplicates(subset=["ticker"], keep="last")
DropDuplicatesKeepLast(records) ==
  SelectSeq([i \in 1..Len(records) |-> [i |-> i, r |-> records[i]]],
            LAMBDA e : \A j \in (e.i + 1)..Len(records) : records[j].ticker # e.r.ticker)

Rec(entries) == [i \in 1..Len(entries) |-> entries[i].r]

\* get_recent_ipos: the tables it may return
\* (source: [raises, calendar], what client.ipo_calendar does when called)
get_recent_ipos(key, installed, source) ==
  LET live    == IF key # "" /\ installed
                   THEN IF source.raises THEN << >>
                        ELSE CalendarRecords(source.calendar, 1, << >>).records
                   ELSE << >>
      records == IF live = << >> THEN DemoData ELSE live
  IN  {Rec(DropDuplicatesKeepLast(sorted)) :
         sorted \in SortedOrders(records, 1..Len(records))}

\* whether get_recent_ipos calls the IPO source
CallsIpoSource(key, installed) == key # "" /\ installed

\* str.strip() over the blank
RECURSIVE LStrip(_)
LStrip(str) ==
  IF str # << >> /\ Head(str) = " " THEN LStrip(Tail(str)) ELSE str

RECURSIVE RStrip(_)
RStrip(str) ==
  IF str # << >> /\ str[Len(str)] = " " THEN RStrip(SubSeq(str, 1, Len(str) - 1)) ELSE str

Strip(str) == RStrip(LStrip(str))

\* str.split(",")
RECURSIVE Split(_, _)
Split(str, field) ==
  IF str = << >> THEN <<field>>
  ELSE IF Head(str) = "," THEN <<field>> \o Split(Tail(str), << >>)
  ELSE Split(Tail(str), Append(field, Head(str)))

\* [t.strip().upper() for t in manual_tickers.split(",") if t.strip()]
ManualList(text) ==
  LET fields == Split(text, << >>)
      kept   == SelectSeq(fields, LAMBDA t : Strip(t) # << >>)
  IN  [i \in 1..Len(kept) |-> Upper(Strip(kept[i]))]

TickersOf(records) == {records[i].ticker : i \in 1..Len(records)}

\* mutant: the manual ticker is appended without the membership test
MergeOne_NoMembershipTest(records, t) ==
  Append(records, IpoRecord(t, t, "", Today))

\* body of the loop over manual_list
MergeOne(records, t) ==
  IF records = << >> \/ t \notin TickersOf(records)
    THEN Append(records, IpoRecord(t, t, "", Today))
    ELSE records

RECURSIVE MergeLoop(_, _, _)
MergeLoop(records, manual_list, k) ==
  IF k > Len(manual_list) THEN records
  ELSE MergeLoop(MergeOne(records, manual_list[k]), manual_list, k + 1)

\* app.py lines 96-117
MergeManual(records, text) ==
  IF Strip(text) # << >> THEN MergeLoop(records, ManualList(text), 1) ELSE records

\* code point order of the characters of the model
CharOrder ==
  <<" ", ",", "A", "B", "C", "E", "I", "K", "L", "M", "N", "O", "R", "S", "T", "U",
    "V", "Y", "a", "b">>

CharCode(c) == CHOOSE i \in 1..Len(CharOrder) : CharOrder[i] = c

\* str < str
RECURSIVE StrLess(_, _)
StrLess(x, y) ==
  IF y = << >> THEN FALSE
  ELSE IF x = << >> THEN TRUE
  ELSE IF Head(x) = Head(y) THEN StrLess(Tail(x), Tail(y))
  ELSE CharCode(Head(x)) < CharCode(Head(y))

\* sorted(ipos_df["ticker"].unique())
RECURSIVE Sorted(_)
Sorted(set) ==
  IF set = {} THEN << >>
  ELSE LET least == CHOOSE x \in set : \A y \in set \ {x} : StrLess(x, y)
       IN  <<least>> \o Sorted(set \ {least})

\* the calendar rows the IPO source may hold
RawRow(symbol, exchange, date) == [symbol |-> symbol, exchange |-> exchange, date |-> date]

RawRows ==
  { RawRow(<<"a">>, "NASDAQ", Date(0 - 5)),
    RawRow(<<"A">>, "nyse", Date(0 - 9)),
    RawRow(<<"A">>, "NASDAQ", None),
    RawRow(<<"A", "A">>, "LSE", Date(0 - 3)),
    RawRow(<< >>, "NASDAQ", Date(0 - 2)),
    RawRow(<<"b">>, "NYSE", Str("soon")) }

Source(raises, calendar) == [raises |-> raises, calendar |-> calendar]

Sources ==
  {Source(TRUE, << >>)}
    \cup {Source(FALSE, c) : c \in SeqsUpTo(RawRows, MaxCalendar)}

ManualChars == {"a", "A", " ", ","}

CallRecord(src, ticker, out) == [src |-> src, ticker |-> ticker, out |-> out]

\* the sidebar inputs and the IPO source of one run
IpoEnv(sources, manuals) ==
  /\ api_key \in {"", "key"}
  /\ finnhub_installed \in BOOLEAN
  /\ ipo_source \in sources
  /\ (api_key = "" \/ ~finnhub_installed) => ipo_source = Source(TRUE, << >>)
  /\ manual_tickers \in manuals
  /\ ipos_df = << >>

----------------------------------------------------------------------------
(* Price and info sources, the screener loop: data_fetcher.py, app.py      *)

MaxBars == 11   \* most bars of a price table of the screener

ma_options == <<10, 20, 50, 100, 200>>

NoTable == [len |-> 0, cols |-> << >>]

\* get_price_data: what yf.download does is outcome = [raises, table]; its
\* table is taken in index order.  The result is [exc, table]: exc is the
\* error that leaves the function, None when it returns the table
get_price_data(ticker, outcome) ==
  IF ticker = << >> THEN [exc |-> None, table |-> NoTable]
  ELSE IF outcome.raises THEN [exc |-> Raise("DownloadError"), table |-> NoTable]
  ELSE [exc |-> None, table |-> outcome.table]

\* a dict read: d.get(k)
Get(d, k) == IF k \in DOMAIN d THEN d[k] ELSE None

Truthy(v) ==
  CASE v.t = "None"  -> FALSE
    [] v.t = "str"   -> v.s # ""
    [] v.t = "float" -> v.n # 0
    [] OTHER         -> TRUE

\* a or b
Or(a, b) == IF Truthy(a) THEN a ELSE b

NoInfo == [k \in {} |-> None]

\* get_stock_info: outcome = [ticker_raises, info_raises, info, fast], the
\* behaviour of yf.Ticker, of its .info and of its fast_info fallback
get_stock_info(ticker, outcome) ==
  IF ticker = << >> THEN NoInfo
  ELSE IF outcome.ticker_raises THEN NoInfo
  ELSE IF ~outcome.info_raises THEN outcome.info
  ELSE outcome.fast

\* mutant: no test for a zero first close
ChangePct_NoZeroTest(first_close, last_close) ==
  IF first_close # None /\ last_close # None
    THEN LET q == PyDiv(last_close, first_close)
         IN  IF IsRaise(q) THEN q ELSE Mul(Sub(q, Float(1, 1)), Float(100, 1))
    ELSE None

\* change_pct of app.py lines 159-161
ChangePct(first_close, last_close) ==
  IF first_close # None /\ last_close # None /\ first_close.n # 0
    THEN LET q == PyDiv(last_close, first_close)
         IN  IF IsRaise(q) THEN q ELSE Mul(Sub(q, Float(1, 1)), Float(100, 1))
    ELSE None

\* vs_pct of app.py lines 179-182
VsPct(last_close, sma_scalar) ==
  IF sma_scalar # None /\ last_close # None
    THEN LET q == PyDiv(last_close, sma_scalar)
         IN  IF IsRaise(q) THEN q ELSE Mul(Sub(q, Float(1, 1)), Float(100, 1))
    ELSE None

\* the first error among the per-window values, in window order
RECURSIVE FirstRaise(_, _, _)
FirstRaise(vs, ws, k) ==
  IF k > Len(ws) THEN None
  ELSE IF IsRaise(vs[ws[k]]) THEN vs[ws[k]]
  ELSE FirstRaise(vs, ws, k + 1)

\* the locals of one pass of the loop when it ends; exc is the error that
\* leaves it, None when the row is appended
Locals(exc, ticker, base_row, sector, market_cap, first_close, last_close,
       change_pct, vs, status) ==
  [exc |-> exc, Ticker |-> ticker, Company |-> base_row.company,
   IPODate |-> base_row.ipo_date, Exchange |-> base_row.exchange,
   Sector |-> sector, MarketCap |-> market_cap,
   first_close |-> first_close, CurrentPrice |-> last_close,
   ChangePct |-> change_pct, vs |-> vs, status |-> status]

NoBaseRow == IpoRecord(<< >>, << >>, "", None)

NoRow == Locals(None, << >>, NoBaseRow, None, None, None, None, None, << >>, << >>)

\* app.py lines 138-187 for a ticker whose price table is not empty
ScreenerRow(ticker, price_df, ws, base_row, info) ==
  LET averaged    == calculate_moving_averages(price_df, ws)
      sigs        == get_ma_signals(averaged, ws)
      first_close == _to_scalar(Scalar(price_df.cols[CloseCol][1]), FALSE)
      last_close  == _to_scalar(Scalar(LatestGet(averaged, CloseCol)), FALSE)
      sector      == Or(Or(Get(info, "sector"), Get(info, "industry")), Str(""))
      market_cap  == Or(Get(info, "marketCap"), Get(info, "market_cap"))
      change_pct  == ChangePct(first_close, last_close)
      vs          == [w \in Range(ws) |->
                        VsPct(last_close,
                              _to_scalar(Scalar(LatestGet(averaged, SmaCol(w))), FALSE))]
      status      == [w \in Range(ws) |-> IF w \in DOMAIN sigs THEN sigs[w] ELSE "n/a"]
      exc         == IF IsRaise(change_pct) THEN change_pct
                     ELSE FirstRaise(vs, ws, 1)
  IN  Locals(exc, ticker, base_row, sector, market_cap, first_close, last_close,
             change_pct, vs, status)

\* selected_mas or ma_options
Windows(selected) == IF selected = << >> THEN ma_options ELSE selected

\* n bars: the first close f, the last close l, every close between them m
Bars(n, f, m, l) ==
  [len |-> n,
   cols |-> (CloseCol :> [i \in 1..n |-> IF i = n THEN l ELSE IF i = 1 THEN f ELSE m])]

PriceCells == {NaN, Float(0, 1), Float(50, 1), Float(75, 1)}

PriceTables == {Bars(n, f, m, l) : n \in 1..MaxBars, f, m, l \in PriceCells}

\* the multiselect: the chosen options in the order of ma_options
Selections ==
  {SelectSeq(ma_options, LAMBDA w : w \in chosen) : chosen \in SUBSET Range(ma_options)}

----------------------------------------------------------------------------
(* Specifications                                                          *)
(* SpecCoerce applies _to_scalar to one value; SpecMA applies the          *)
(* indicator functions to one table; SpecRow runs one pass of the screener *)
(* loop on one price table; SpecIpos loads the IPO set and merges the      *)
(* manual tickers; Spec is the whole run of main().                        *)

\* values of the variables a specification does not use
Pending == Val("pending", 0, 1, "")

TableIdle ==
  df = NoTable /\ windows = << >> /\ signals = << >> /\ row = NoRow

IpoIdle ==
  /\ api_key = "" /\ finnhub_installed = FALSE /\ ipo_source = Source(TRUE, << >>)
  /\ manual_tickers = << >> /\ ipos_df = << >>

RunIdle ==
  /\ selected_mas = << >> /\ tickers = << >> /\ idx = 0 /\ rows = << >> /\ calls = << >>
  /\ market = << >>

CoerceIdle == value = Scalar(None) /\ empty_truth_raises = FALSE /\ coerced = Pending

CoerceInit ==
  /\ value \in Values
  /\ empty_truth_raises \in BOOLEAN
  /\ coerced = Pending
  /\ TableIdle /\ IpoIdle /\ RunIdle
  /\ pc = "coerce"

Coerce ==
  /\ pc = "coerce"
  /\ coerced' = _to_scalar(value, empty_truth_raises)
  /\ pc' = "coerced"
  /\ UNCHANGED <<value, empty_truth_raises, tableVars, ipoVars, runVars>>

SpecCoerce == CoerceInit /\ [][Coerce]_vars

MAInit ==
  /\ df \in Tables
  /\ windows \in WindowArgs
  /\ signals = << >> /\ row = NoRow
  /\ CoerceIdle /\ IpoIdle /\ RunIdle
  /\ pc = "table"

CalcMA ==
  /\ pc = "table"
  /\ df' = calculate_moving_averages(df, windows)
  /\ pc' = "averaged"
  /\ UNCHANGED <<windows, signals, row, coerceVars, ipoVars, runVars>>

GetSignals ==
  /\ pc \in {"table", "averaged"}
  /\ signals' = get_ma_signals(df, windows)
  /\ pc' = IF pc = "table" THEN "raw_signals" ELSE "signals"
  /\ UNCHANGED <<df, windows, row, coerceVars, ipoVars, runVars>>

SpecMA == MAInit /\ [][CalcMA \/ GetSignals]_vars

RowInit ==
  /\ df \in PriceTables
  /\ selected_mas \in Selections
  /\ windows = << >> /\ signals = << >> /\ row = NoRow
  /\ CoerceIdle /\ IpoIdle
  /\ tickers = << >> /\ idx = 0 /\ rows = << >> /\ calls = << >> /\ market = << >>
  /\ pc = "priced"

\* one pass of the loop over a price table with bars
AssembleRow ==
  /\ pc = "priced"
  /\ row' = ScreenerRow(<<"A">>, df, Windows(selected_mas),
                        IpoRecord(<<"A">>, <<"A">>, "", Today), NoInfo)
  /\ pc' = "row"
  /\ UNCHANGED <<df, windows, signals, coerceVars, ipoVars, runVars>>

SpecRow == RowInit /\ [][AssembleRow]_vars

\* load_ipos(lookback_days, effective_api_key)
LoadIpos ==
  /\ pc = "start"
  /\ ipos_df' \in get_recent_ipos(api_key, finnhub_installed, ipo_source)
  /\ calls' = IF CallsIpoSource(api_key, finnhub_installed)
                THEN Append(calls, CallRecord("ipo", << >>,
                                              IF ipo_source.raises THEN "raise" ELSE "ok"))
                ELSE calls
  /\ pc' = "loaded"
  /\ UNCHANGED <<coerceVars, tableVars, api_key, finnhub_installed, ipo_source,
                 manual_tickers, selected_mas, tickers, idx, rows, market>>

\* the manual tickers, the empty-table return and the sorted ticker list
Merge ==
  /\ pc = "loaded"
  /\ ipos_df' = MergeManual(ipos_df, manual_tickers)
  /\ IF ipos_df' = << >>
       THEN pc' = "no_ipos" /\ UNCHANGED <<tickers, idx>>
       ELSE /\ tickers' = Sorted(TickersOf(ipos_df'))
            /\ idx' = 1
            /\ pc' = "screen"
  /\ UNCHANGED <<coerceVars, tableVars, api_key, finnhub_installed, ipo_source,
                 manual_tickers, selected_mas, rows, calls, market>>

IposInit ==
  /\ IpoEnv(Sources, SeqsUpTo(ManualChars, MaxInputLen))
  /\ RunIdle
  /\ CoerceIdle /\ TableIdle
  /\ pc = "start"

SpecIpos == IposInit /\ [][LoadIpos \/ Merge]_vars

\* what the price source may do for one ticker
PriceOutcome(raises, table) == [raises |-> raises, table |-> table]

\* what the info source may do for one ticker
InfoOutcome(ticker_raises, info_raises, info, fast) ==
  [ticker_raises |-> ticker_raises, info_raises |-> info_raises, info |-> info, fast |-> fast]

\* the info source gave nothing: no attempt of get_stock_info succeeded
InfoFailed(o) == o.ticker_raises \/ (o.info_raises /\ o.fast = NoInfo)

Behaviour(price, info) == [price |-> price, info |-> info]

GoodPrice == PriceOutcome(FALSE, Bars(10, Float(50, 1), Float(50, 1), Float(75, 1)))
GoodInfo  ==
  InfoOutcome(FALSE, FALSE, ("marketCap" :> Float(5, 1)) @@ ("sector" :> Str("Tech")), NoInfo)

\* a ticker the sources serve well
Served == Behaviour(GoodPrice, GoodInfo)

\* the other behaviours: the price call raises, the price table is empty, the
\* closes are all zero, the info call fails, .info fails and fast_info answers
Deviations ==
  { Behaviour(PriceOutcome(TRUE, NoTable), GoodInfo),
    Behaviour(PriceOutcome(FALSE, NoTable), GoodInfo),
    Behaviour(PriceOutcome(FALSE, Bars(10, Float(0, 1), Float(0, 1), Float(0, 1))), GoodInfo),
    Behaviour(GoodPrice, InfoOutcome(TRUE, FALSE, NoInfo, NoInfo)),
    Behaviour(GoodPrice, InfoOutcome(FALSE, TRUE, NoInfo, NoInfo)),
    Behaviour(GoodPrice, InfoOutcome(FALSE, TRUE, NoInfo, ("market_cap" :> Float(7, 1)))) }

\* the tickers a run of Spec can meet
Universe == TickersOf(DemoData) \cup {<<"A">>}

\* the sources serve every ticker but at most two
Markets ==
  UNION {
           {[t \in Universe |-> IF t = a THEN da ELSE IF t = b THEN db ELSE Served] :
              da \in Deviations, db \in Deviations \cup {Served}} :
             a \in Universe, b \in Universe}
    \cup {[t \in Universe |-> Served]}

\* ipos_df[ipos_df["ticker"] == ticker].iloc[-1]
BaseRow(records, ticker) ==
  records[CHOOSE i \in 1..Len(records) :
            /\ records[i].ticker = ticker
            /\ \A j \in (i + 1)..Len(records) : records[j].ticker # ticker]

MainInit ==
  /\ IpoEnv({Source(TRUE, << >>),
             Source(FALSE, <<RawRow(<<"a">>, "NASDAQ", Date(0 - 5))>>),
             Source(FALSE, <<RawRow(<<"A", "A">>, "LSE", Date(0 - 3))>>)},
            {<< >>, <<"a">>})
  /\ selected_mas \in {<< >>, <<10>>}
  /\ market \in Markets
  /\ tickers = << >> /\ idx = 0 /\ rows = << >> /\ calls = << >>
  /\ CoerceIdle /\ TableIdle
  /\ pc = "start"

\* one pass of the loop of app.py lines 133-189: the price call, the skip of
\* an empty table, the info call and the row; an error that no handler
\* catches ends the run
ScreenTicker ==
  /\ pc = "screen" /\ idx <= Len(tickers)
  /\ LET ticker  == tickers[idx]
         fetched == get_price_data(ticker, market[ticker].price)
     IN  IF fetched.exc # None
           THEN /\ calls' = Append(calls, CallRecord("price", ticker, "raise"))
                /\ row' = [NoRow EXCEPT !.exc = fetched.exc, !.Ticker = ticker]
                /\ pc' = "crashed"
                /\ UNCHANGED <<rows, idx>>
         ELSE IF Empty(fetched.table)
           THEN /\ calls' = Append(calls, CallRecord("price", ticker, "empty"))
                /\ idx' = idx + 1
                /\ UNCHANGED <<rows, row, pc>>
         ELSE /\ calls' = calls \o
                   << CallRecord("price", ticker, "data"),
                      CallRecord("info", ticker,
                                 IF InfoFailed(market[ticker].info) THEN "failed" ELSE "ok") >>
              /\ row' = ScreenerRow(ticker, fetched.table, Windows(selected_mas),
                                    BaseRow(ipos_df, ticker),
                                    get_stock_info(ticker, market[ticker].info))
              /\ IF row'.exc # None
                   THEN pc' = "crashed" /\ UNCHANGED <<rows, idx>>
                   ELSE /\ rows' = Append(rows, row')
                        /\ idx' = idx + 1
                        /\ UNCHANGED pc
  /\ UNCHANGED <<coerceVars, df, windows, signals, ipoVars, selected_mas, tickers, market>>

\* app.py lines 191-200: the empty-table return, else the table with its S/N
Finish ==
  /\ pc = "screen" /\ idx > Len(tickers)
  /\ IF rows = << >>
       THEN pc' = "no_rows" /\ UNCHANGED rows
       ELSE /\ rows' = [i \in 1..Len(rows) |-> ("SN" :> Float(i, 1)) @@ rows[i]]
            /\ pc' = "done"
  /\ UNCHANGED <<coerceVars, tableVars, ipoVars, selected_mas, tickers, idx, calls, market>>

Next == LoadIpos \/ Merge \/ ScreenTicker \/ Finish

Spec == MainInit /\ [][Next]_vars

----------------------------------------------------------------------------
(* Properties of the indicator functions, under SpecMA                     *)

Averaged == pc \in {"averaged", "signals"}

\* the calculation ran on a table with rows and a Close column
AveragedCloses == Averaged /\ df.len >= 1 /\ HasCol(df, CloseCol)

RECURSIVE SumCloses(_, _, _)
SumCloses(closes, lo, hi) ==
  IF lo > hi THEN 0 ELSE closes[hi].n + SumCloses(closes, lo, hi - 1)

\* sum of closes[lo..hi] divided by their number; NaN when one of them is NaN
\* (the closes of Tables are whole numbers)
MeanOf(closes, lo, hi) ==
  IF \A j \in lo..hi : IsNumber(closes[j])
    THEN Float(SumCloses(closes, lo, hi), hi - lo + 1)
    ELSE NaN

\* C1: for a window W > 0 and n >= W closes, column SMA_W is missing at every
\* position before the W-th bar and, from the W-th bar on, is the arithmetic
\* mean of the W closes ending at that position (positions count from 1 here;
\* a NaN close inside the span makes the sum and so the mean NaN).
C1_SmaIsTrailingMean ==
  AveragedCloses =>
    \A w \in Range(windows) :
      (w > 0 /\ df.len >= w) =>
        /\ HasCol(df, SmaCol(w))
        /\ Len(df.cols[SmaCol(w)]) = df.len
        /\ \A i \in 1..df.len :
             IF i < w
               THEN IsNaElem(df.cols[SmaCol(w)][i])
               ELSE df.cols[SmaCol(w)][i] = MeanOf(df.cols[CloseCol], i - w + 1, i)

C1_Witness ==
  /\ pc = "averaged" /\ HasCol(df, CloseCol) /\ df.len = 3
  /\ HasCol(df, SmaCol(2))
  /\ IsNaElem(df.cols[SmaCol(2)][1])
  /\ df.cols[CloseCol] = <<Float(0, 1), Float(1, 1), Float(1, 1)>>
  /\ df.cols[SmaCol(2)][2] = Float(1, 2)
  /\ df.cols[SmaCol(2)][3] = Float(1, 1)

\* C2: for a window W > 0 and a close series of 1 <= n < W bars, column SMA_W
\* exists and each of its n values is missing.
C2_ShortHistoryAllMissing ==
  AveragedCloses =>
    \A w \in Range(windows) :
      (w > 0 /\ df.len < w) =>
        /\ HasCol(df, SmaCol(w))
        /\ Len(df.cols[SmaCol(w)]) = df.len
        /\ \A i \in 1..df.len : IsNaElem(df.cols[SmaCol(w)][i])

C2_Witness ==
  /\ pc = "averaged" /\ HasCol(df, CloseCol) /\ df.len = 2
  /\ 3 \in Range(windows)
  /\ HasCol(df, SmaCol(3))
  /\ \A i \in 1..2 : df.cols[SmaCol(3)][i] = NA

Signalled == pc \in {"raw_signals", "signals"} /\ ~Empty(df)

\* a cell of the latest row that holds no number (also: the column is absent)
LatestMissing(c) == ~HasCol(df, c) \/ ~IsNumber(df.cols[c][df.len])

\* C3: on a non-empty table every requested window gets one of 'above',
\* 'below', 'n/a'; it is 'n/a' exactly when the latest close or the latest
\* SMA of the window is missing, otherwise 'above' exactly when the close is
\* strictly greater than the SMA, and 'below' in every other case.
C3_SignalClassification ==
  Signalled =>
    /\ DOMAIN signals = Range(windows)
    /\ \A w \in Range(windows) :
         /\ signals[w] \in {"above", "below", "n/a"}
         /\ signals[w] = "n/a" <=> (LatestMissing(CloseCol) \/ LatestMissing(SmaCol(w)))
         /\ signals[w] = "above" <=>
              /\ ~LatestMissing(CloseCol) /\ ~LatestMissing(SmaCol(w))
              /\ df.cols[CloseCol][df.len].n * df.cols[SmaCol(w)][df.len].d
                   > df.cols[SmaCol(w)][df.len].n * df.cols[CloseCol][df.len].d

\* close == SMA gives 'below'
C3_Witness ==
  /\ pc = "signals" /\ ~Empty(df) /\ 2 \in Range(windows)
  /\ ~LatestMissing(CloseCol) /\ ~LatestMissing(SmaCol(2))
  /\ df.cols[CloseCol][df.len] = df.cols[SmaCol(2)][df.len]
  /\ signals[2] = "below"

\* what C10 says of one step of the calculation: no column for a window <= 0,
\* every column the table had is kept as it was, no column other than those
\* of the positive windows is added, and each positive window has its column
IgnoredByCalculation ==
  (pc = "table" /\ pc' = "averaged") =>
    /\ df'.len = df.len
    /\ \A c \in DOMAIN df.cols : HasCol(df', c) /\ df'.cols[c] = df.cols[c]
    /\ \A w \in Range(windows) : w <= 0 => ~HasCol(df', SmaCol(w))
    /\ DOMAIN df'.cols \subseteq
         DOMAIN df.cols \cup {SmaCol(w) : w \in {x \in Range(windows) : x > 0}}
    /\ (~Empty(df) /\ HasCol(df, CloseCol)) =>
         \A w \in Range(windows) : w > 0 => HasCol(df', SmaCol(w))

\* C10 as claimed: non-positive windows are ignored by the calculation, and
\* the signal derivation for the same windows has no entry for a window <= 0.
C10_NonPositiveIgnored ==
  [][/\ IgnoredByCalculation
     /\ (pc = "averaged" /\ pc' = "signals") =>
          \A w \in Range(windows) : w <= 0 => w \notin DOMAIN signals']_vars

\* C10 amended: non-positive windows are ignored by the calculation; the
\* signal derivation on a non-empty table reports 'n/a' for a window <= 0
\* (and nothing at all on an empty table).
C10_NonPositiveIgnoredSignalNA ==
  [][/\ IgnoredByCalculation
     /\ (pc = "averaged" /\ pc' = "signals") =>
          \A w \in Range(windows) : w <= 0 =>
            IF Empty(df) THEN w \notin DOMAIN signals'
            ELSE w \in DOMAIN signals' /\ signals'[w] = "n/a"]_vars

C10_Witness ==
  /\ pc = "signals" /\ HasCol(df, CloseCol) /\ df.len = 2
  /\ Range(windows) = {0, 2}
  /\ DOMAIN df.cols = {CloseCol, SmaCol(2)}
  /\ IsNumber(df.cols[SmaCol(2)][2])
  /\ signals[0] = "n/a" /\ signals[2] # "n/a"

----------------------------------------------------------------------------
(* Properties of scalar coercion, under SpecCoerce                         *)

IsSequence(v) == v.kind \in {"list", "ndarray", "Series", "Index"}

\* C4: for every input shape _to_scalar returns a number or the missing
\* marker (None); it never raises.  Stated for the builds on which the truth
\* value of an empty array is False, where the claim has the most room to hold.
C4_CoercionNeverRaises ==
  (pc = "coerced" /\ ~empty_truth_raises) => coerced.t \in {"float", "None"}

\* C5: an NA value gives missing; a one-element numeric sequence gives its
\* element; a longer sequence gives the coercion of its last element; a value
\* with no numeric reading gives missing.
C5_CoercionValues ==
  pc = "coerced" =>
    /\ (value.kind = "scalar" /\ IsNaElem(value.elems[1])) => coerced = None
    /\ (IsSequence(value) /\ Len(value.elems) = 1 /\ IsNumber(value.elems[1]))
         => coerced = value.elems[1]
    /\ (IsSequence(value) /\ Len(value.elems) > 1)
         => coerced = _to_scalar(Scalar(value.elems[Len(value.elems)]), empty_truth_raises)
    /\ (value = Scalar(Str("abc"))) => coerced = None

----------------------------------------------------------------------------
(* Properties of the screener run                                          *)

\* C6 (under SpecRow): with both the first and the last close present and the
\* first close not 0, the change is (last_close / first_close - 1) * 100;
\* with a first close of 0, or either close missing, the change is missing
\* and its computation raises no division error.
C6_PercentChange ==
  pc = "row" =>
    LET first == df.cols[CloseCol][1]
        last  == df.cols[CloseCol][df.len]
    IN  IF IsNumber(first) /\ IsNumber(last) /\ first.n # 0
          THEN /\ IsNumber(row.ChangePct)
               /\ row.ChangePct.n * first.n * last.d
                    = 100 * (last.n * first.d - first.n * last.d) * row.ChangePct.d
          ELSE row.ChangePct = None

\* 50 -> 75 gives +50
C6_Witness ==
  /\ pc = "row" /\ df.len = 10
  /\ df.cols[CloseCol][1] = Float(50, 1) /\ df.cols[CloseCol][10] = Float(75, 1)
  /\ row.first_close = Float(50, 1) /\ row.CurrentPrice = Float(75, 1)
  /\ row.ChangePct = Float(50, 1)

RowTickers == [i \in 1..Len(rows) |-> rows[i].Ticker]

RunEnded == pc \in {"done", "no_rows", "crashed"}

\* the price source holds bars for the ticker
HasPriceData(t) == ~market[t].price.raises /\ ~Empty(market[t].price.table)

\* C7 (under Spec): when the run has ended, the table holds one row for each
\* ticker of the list whose price data is not empty, in the order of the
\* list, and no other row.
C7_OneRowPerPricedTicker ==
  RunEnded => RowTickers = SelectSeq(tickers, HasPriceData)

\* C8 (under Spec): no failure of an external source leaves the run; a
\* failed IPO call gives the demo set; a failed price call skips the ticker; a
\* failed info call gives an empty mapping; no call is made twice.
C8_SourceFailuresCaught ==
  /\ pc = "crashed" => row.exc # Raise("DownloadError")
  /\ (pc = "loaded" /\ api_key # "" /\ finnhub_installed /\ ipo_source.raises)
       => TickersOf(ipos_df) = TickersOf(DemoData) /\ Len(ipos_df) = Len(DemoData)
  /\ \A i \in 1..Len(calls) :
       (calls[i].src = "price" /\ calls[i].out = "raise")
         => \A k \in 1..Len(rows) : rows[k].Ticker # calls[i].ticker
  /\ \A k \in 1..Len(rows) :
       InfoFailed(market[rows[k].Ticker].info)
         => rows[k].Sector = Str("") /\ rows[k].MarketCap = None
  /\ \A i, j \in 1..Len(calls) :
       (i # j) => (calls[i].src # calls[j].src \/ calls[i].ticker # calls[j].ticker)

\* the manual tickers of a text, read off its characters: the stretches
\* between commas, without the blanks at their ends, in upper case
IsField(text, a, b) ==
  /\ a <= b
  /\ text[a] \notin {" ", ","} /\ text[b] \notin {" ", ","}
  /\ \A k \in a..b : text[k] # ","
  /\ \E i \in 1..a : /\ i = 1 \/ text[i - 1] = ","
                     /\ \A k \in i..(a - 1) : text[k] = " "
  /\ \E j \in b..Len(text) : /\ j = Len(text) \/ text[j + 1] = ","
                             /\ \A k \in (b + 1)..j : text[k] = " "

ManualSet(text) ==
  {[k \in 1..(ab[2] - ab[1] + 1) |->
      IF text[ab[1] + k - 1] = "a" THEN "A" ELSE text[ab[1] + k - 1]] :
     ab \in {x \in (1..Len(text)) \X (1..Len(text)) : IsField(text, x[1], x[2])}}

\* C9 (under SpecIpos): after the merge every manual ticker is in the IPO
\* set; the records the set had are unchanged and come first; each manual
\* ticker the set lacked has exactly one new record, dated today; a manual
\* ticker the set had gets no new record.
C9_ManualMerge ==
  [][(pc = "loaded" /\ pc' \in {"screen", "no_ipos"}) =>
       LET manual == ManualSet(manual_tickers)
           absent == manual \ TickersOf(ipos_df)
       IN  /\ manual \subseteq TickersOf(ipos_df')
           /\ Len(ipos_df') = Len(ipos_df) + Cardinality(absent)
           /\ SubSeq(ipos_df', 1, Len(ipos_df)) = ipos_df
           /\ \A k \in (Len(ipos_df) + 1)..Len(ipos_df') :
                /\ ipos_df'[k].ticker \in absent
                /\ ipos_df'[k] = IpoRecord(ipos_df'[k].ticker, ipos_df'[k].ticker, "", Today)
                /\ \A j \in (Len(ipos_df) + 1)..Len(ipos_df') :
                     ipos_df'[j].ticker = ipos_df'[k].ticker => j = k]_vars

\* "a,A" typed against the live set {A}: A keeps its record and its date
C9_WitnessKept ==
  /\ pc = "screen"
  /\ manual_tickers = <<"a", ",", "A">>
  /\ ipos_df = <<IpoRecord(<<"A">>, <<"A">>, "NASDAQ", Date(0 - 5))>>

\* "a,a" typed against the demo set: A is added once, dated today
C9_Witness ==
  /\ pc = "screen"
  /\ manual_tickers = <<"a", ",", "a">>
  /\ Len(ipos_df) = Len(DemoData) + 1
  /\ ipos_df[Len(ipos_df)] = IpoRecord(<<"A">>, <<"A">>, "", Today)

\* the latest value of SMA_w over the price table of the pass: the mean of the
\* w latest closes, missing when there are fewer than w bars
LatestSma(w) ==
  IF df.len >= w THEN MeanOf(df.cols[CloseCol], df.len - w + 1, df.len) ELSE NaN

\* C11 (under SpecRow): for every window of the row, when the latest SMA and
\* the last close are both present and the SMA is not 0 the 'price vs MA'
\* percentage is (last_close / sma - 1) * 100; when the SMA is 0, or either
\* value is missing, the percentage is missing and no division error occurs;
\* so the percentage is missing whenever the window's status is 'n/a'.
C11_PriceVsMaGuarded ==
  pc = "row" =>
    \A w \in Range(Windows(selected_mas)) :
      LET last == df.cols[CloseCol][df.len]
          sma  == LatestSma(w)
      IN  /\ IF IsNumber(sma) /\ IsNumber(last) /\ sma.n # 0
               THEN /\ IsNumber(row.vs[w])
                    /\ row.vs[w].n * sma.n * last.d
                         = 100 * (last.n * sma.d - sma.n * last.d) * row.vs[w].d
               ELSE row.vs[w] = None
          /\ row.status[w] = "n/a" => row.vs[w] = None

====
